---------------------------- MODULE Spec2Model ----------------------------
(***************************************************************************)
(* Routing core of the Supervisor agent: decide_tool (supervisor/router.py)*)
(* with the keyword classifier, the ambiguity detector and the LLM-based   *)
(* secondary classifier (supervisor/llm_router.py), over the Config object *)
(* of supervisor/config.py.                                                *)
(*                                                                         *)
(* Strings are sequences of one-character strings, so that lower(),        *)
(* strip(), split() and the `in` substring test are computed character by  *)
(* character as Python computes them.  Python dicts are functions whose    *)
(* DOMAIN is the set of keys that are present.                             *)
(***************************************************************************)
EXTENDS Integers, Sequences, FiniteSets, TLC

(***************************************************************************)
(* Bounds of the model                                                     *)
(***************************************************************************)
\* longest query enumerated character by character
MaxQueryLen == 3
\* largest number of filler words " x" appended to a one-character query
MaxPad == 5
\* the calls one caller makes one after the other
MaxCalls == 3

(***************************************************************************)
(* Python str operations                                                   *)
(***************************************************************************)
\* str.isspace() of one character: the whitespace str.strip()/str.split() cut at
Whitespace == {" ", "\t", "\n"}

\* str.lower() of the upper-case ASCII letters
LowerOf ==
    "A" :> "a" @@ "B" :> "b" @@ "C" :> "c" @@ "D" :> "d" @@ "E" :> "e" @@ "F" :> "f" @@
    "G" :> "g" @@ "H" :> "h" @@ "I" :> "i" @@ "J" :> "j" @@ "K" :> "k" @@ "L" :> "l" @@
    "M" :> "m" @@ "N" :> "n" @@ "O" :> "o" @@ "P" :> "p" @@ "Q" :> "q" @@ "R" :> "r" @@
    "S" :> "s" @@ "T" :> "t" @@ "U" :> "u" @@ "V" :> "v" @@ "W" :> "w" @@ "X" :> "x" @@
    "Y" :> "y" @@ "Z" :> "z"

\* str.lower() of one character
LowerChar(c) == IF c \in DOMAIN LowerOf THEN LowerOf[c] ELSE c

\* str.lower()
Lower(s) == [i \in 1..Len(s) |-> LowerChar(s[i])]

\* str.strip(): leading and trailing whitespace removed
Strip(s) ==
    LET keep == {i \in 1..Len(s) : s[i] \notin Whitespace}
    IN  IF keep = {} THEN <<>>
        ELSE LET lo == CHOOSE i \in keep : \A j \in keep : i <= j
                 hi == CHOOSE i \in keep : \A j \in keep : j <= i
             IN  SubSeq(s, lo, hi)

\* len(str.split()): the number of maximal runs of non-whitespace characters
WordCount(s) ==
    Cardinality({i \in 1..Len(s) :
                    /\ s[i] \notin Whitespace
                    /\ (i = 1 \/ s[i-1] \in Whitespace)})

\* Python's `needle in hay` on strings
Contains(needle, hay) ==
    \E i \in 0..(Len(hay) - Len(needle)) :
        SubSeq(hay, i + 1, i + Len(needle)) = needle

\* dict.get(key, default)
Get(d, key, default) == IF key \in DOMAIN d THEN d[key] ELSE default

(***************************************************************************)
(* Config (supervisor/config.py)                                           *)
(***************************************************************************)
ToolNames == {"document_retriever", "database_query", "web_search"}

\* is_tool_enabled with a tool that is missing from the mapping taken as enabled
is_tool_enabled_default_true(config, tool_name) ==
    IF tool_name \notin DOMAIN config.tools
    THEN TRUE
    ELSE Get(config.tools[tool_name], "enabled", FALSE)

\* Config.is_tool_enabled
is_tool_enabled(config, tool_name) ==
    IF tool_name \notin DOMAIN config.tools
    THEN FALSE
    ELSE Get(config.tools[tool_name], "enabled", FALSE)

(***************************************************************************)
(* Keyword classifier (supervisor/router.py)                               *)
(***************************************************************************)
\* _matches_keywords comparing the keywords as they are written
_matches_keywords_as_written(query_lower, keywords) ==
    IF keywords = <<>>
    THEN FALSE
    ELSE \E k \in 1..Len(keywords) : Contains(keywords[k], query_lower)

\* _matches_keywords(query_lower, keywords)
_matches_keywords(query_lower, keywords) ==
    IF keywords = <<>>
    THEN FALSE
    ELSE \E k \in 1..Len(keywords) : Contains(Lower(keywords[k]), query_lower)

\* _contains_harmful_pattern testing the patterns as the keywords are tested
_contains_harmful_pattern_substring(query_lower, harmful_patterns) ==
    IF harmful_patterns = <<>>
    THEN FALSE
    ELSE \E k \in 1..Len(harmful_patterns) :
            Contains(Lower(harmful_patterns[k]), query_lower)

\* _contains_harmful_pattern(query_lower, harmful_patterns)
_contains_harmful_pattern(query_lower, harmful_patterns) ==
    IF harmful_patterns = <<>>
    THEN FALSE
    ELSE \E k \in 1..Len(harmful_patterns) :
            Contains(<<" ">> \o Lower(harmful_patterns[k]) \o <<" ">>,
                     <<" ">> \o query_lower \o <<" ">>)

(***************************************************************************)
(* Ambiguity detector (supervisor/llm_router.py)                           *)
(***************************************************************************)
\* is_ambiguous_query without the rule for several matched categories
is_ambiguous_query_no_multi(q, matches) ==
    LET word_count == WordCount(q)
    IN  IF word_count < 3 /\ matches = <<>> THEN TRUE
        ELSE IF Len(matches) = 1 THEN FALSE
        ELSE IF word_count < 5 /\ matches = <<>> THEN TRUE
        ELSE FALSE

\* is_ambiguous_query with the short-query rules not looking at the matches
is_ambiguous_query_short_first(q, matches) ==
    LET word_count == WordCount(q)
    IN  IF Len(matches) > 1 THEN TRUE
        ELSE IF word_count < 3 THEN TRUE
        ELSE IF word_count < 5 THEN TRUE
        ELSE IF Len(matches) = 1 THEN FALSE
        ELSE FALSE

\* is_ambiguous_query without the rule for queries of fewer than five words
is_ambiguous_query_under_three(q, matches) ==
    LET word_count == WordCount(q)
    IN  IF Len(matches) > 1 THEN TRUE
        ELSE IF word_count < 3 /\ matches = <<>> THEN TRUE
        ELSE IF Len(matches) = 1 THEN FALSE
        ELSE FALSE

\* is_ambiguous_query(query, keyword_matches)
is_ambiguous_query(q, matches) ==
    LET word_count == WordCount(q)
    IN  IF Len(matches) > 1 THEN TRUE
        ELSE IF word_count < 3 /\ matches = <<>> THEN TRUE
        ELSE IF Len(matches) = 1 THEN FALSE
        ELSE IF word_count < 5 /\ matches = <<>> THEN TRUE
        ELSE FALSE


(***************************************************************************)
(* Secondary classifier (supervisor/llm_router.py)                         *)
(***************************************************************************)
\* Optional[str]: None, or a string
None == [some |-> FALSE, val |-> <<>>]
Some(s) == [some |-> TRUE, val |-> s]

\* the category names as Python strings
Chars(token) ==
    CASE token = "doc"      -> <<"d", "o", "c">>
      [] token = "db"       -> <<"d", "b">>
      [] token = "web"      -> <<"w", "e", "b">>
      [] token = "direct"   -> <<"d", "i", "r", "e", "c", "t">>
      [] token = "fallback" -> <<"f", "a", "l", "l", "b", "a", "c", "k">>

\* the list ['direct', 'doc', 'db', 'web'] both validations test membership in
ValidSuggestions == {"direct", "doc", "db", "web"}

\* what the text-completion collaborator (client.messages.create) can do
LlmTexts ==
    { Chars("doc"), Chars("db"), Chars("web"), Chars("direct"),
      <<" ", "D", "o", "c", "\n">>, <<"W", "E", "B">>,
      Chars("fallback"), <<"d", "o", "c", "s">>, <<"d", "b", " ", "w", "e", "b">>,
      <<" ">>, <<>> }
LlmFailures ==
    {"empty_content", "APITimeoutError", "APIConnectionError", "APIError", "Exception"}
LlmOutcomes ==
    {[kind |-> "text", text |-> t] : t \in LlmTexts}
        \cup {[kind |-> k, text |-> <<>>] : k \in LlmFailures}
NotCalled == [kind |-> "not_called", text |-> <<>>]

\* _parse_llm_response without .strip().lower()
_parse_llm_response_raw(outcome) ==
    IF outcome.kind = "text"
    THEN Some(outcome.text)
    ELSE None

\* _call_llm_for_routing after the availability and API-key checks: the
\* response (or the exception) of client.messages.create turned into the
\* function's return value
_parse_llm_response(outcome) ==
    IF outcome.kind = "text"
    THEN Some(Lower(Strip(outcome.text)))
    ELSE None

\* llm_route_query, lines 93-99: `suggestion and suggestion in [...]`
_validate_suggestion(suggestion) ==
    IF /\ suggestion.some
       /\ suggestion.val # <<>>
       /\ \E t \in ValidSuggestions : Chars(t) = suggestion.val
    THEN CHOOSE t \in ValidSuggestions : Chars(t) = suggestion.val
    ELSE "None"

\* llm_route_query, lines 78-86: the tools listed in the routing prompt
_available_tools(config) ==
    (IF is_tool_enabled(config, "document_retriever") THEN <<"doc">> ELSE <<>>)
        \o (IF is_tool_enabled(config, "database_query") THEN <<"db">> ELSE <<>>)
        \o (IF is_tool_enabled(config, "web_search") THEN <<"web">> ELSE <<>>)
        \o <<"direct">>

(***************************************************************************)
(* Routing decision engine (supervisor/router.py, decide_tool)             *)
(***************************************************************************)
\* tool_enabled_map with every suggestion allowed
tool_enabled_map_all_true(config) ==
    [doc |-> TRUE, db |-> TRUE, web |-> TRUE, direct |-> TRUE]

\* decide_tool, lines 106-111: tool_enabled_map
tool_enabled_map(config) ==
    [ doc    |-> is_tool_enabled(config, "document_retriever"),
      db     |-> is_tool_enabled(config, "database_query"),
      web    |-> is_tool_enabled(config, "web_search"),
      direct |-> TRUE ]

\* _use_suggestion returning whatever llm_route_query returned
_use_suggestion_unchecked(config, suggestion) == suggestion

\* decide_tool, lines 102-116: the category returned for an LLM suggestion
_use_suggestion(config, suggestion) ==
    IF /\ suggestion # "None"
       /\ suggestion \in {"direct", "doc", "db", "web"}
       /\ Get(tool_enabled_map(config), suggestion, FALSE)
    THEN suggestion
    ELSE "direct"

VARIABLES
    query_type,          \* type(query).__name__
    query,               \* the query text
    config,              \* the Config object: tools and routing_rules
    ANTHROPIC_AVAILABLE, \* module flag of llm_router: the SDK was imported
    ANTHROPIC_API_KEY,   \* os.getenv("ANTHROPIC_API_KEY") is set and non-empty
    pc,                  \* position of the call in decide_tool
    keyword_matches,     \* decide_tool's keyword_matches list
    available_tools,     \* llm_route_query's available_tools list
    llm_attempts,        \* calls of llm_route_query made by this decide_tool call
    llm_calls,           \* calls of client.messages.create made by this call
    llm_outcome,         \* what the collaborator did when it was called
    llm_suggestion,      \* the value llm_route_query returned
    result,              \* the value decide_tool returned
    raised,              \* the exception decide_tool or respond raised
    entry,               \* the function the caller called: decide_tool or respond
    call_no,             \* the number of the caller's current call
    first,               \* the caller's record of its first call
    thread,              \* the thread whose call is running
    parked,              \* the locals of the other thread's call
    response,            \* what produced the response of respond
    config_file,         \* the file at the agent's config_path
    last_reload,         \* how the agent's last reload_config ended
    edited,              \* the file was written after the agent last loaded it
    config_path,         \* the path a LangChainSupervisorAgent was constructed with
    disk,                \* the configuration files by path
    tools                \* the tool list of the LangChainSupervisorAgent

vars == << query_type, query, config, ANTHROPIC_AVAILABLE, ANTHROPIC_API_KEY, pc,
           keyword_matches, available_tools, llm_attempts, llm_calls,
           llm_outcome, llm_suggestion, result, raised,
           entry, call_no, first, thread, parked, response,
           config_file, last_reload, edited, config_path, disk, tools >>

\* the configuration file and what became of the agent's loading it
files == << config_file, last_reload, edited >>

\* what belongs to a LangChainSupervisorAgent
langchain == << config_path, disk, tools >>

\* what belongs to the caller of decide_tool and to the scheduler: no step of
\* decide_tool or llm_route_query writes it
caller == << entry, call_no, first, thread, parked, response, files,
            langchain >>

inputs == << query_type, query, config, ANTHROPIC_AVAILABLE, ANTHROPIC_API_KEY >>

query_lower == Lower(query)

\* decide_tool, lines 51-59: input validation
\* Validate without the strip: a query of whitespace goes on to the checks
Validate_no_strip ==
    /\ pc = "start"
    /\ IF query_type # "str"
       THEN /\ raised' = "TypeError"
            /\ pc' = "raised"
       ELSE IF query = <<>>
       THEN /\ raised' = "ValueError"
            /\ pc' = "raised"
       ELSE /\ raised' = raised
            /\ pc' = "harmful"
    /\ UNCHANGED << inputs, caller, keyword_matches, available_tools, llm_attempts,
                    llm_calls, llm_outcome, llm_suggestion, result >>

\* decide_tool, lines 51-59: the checks of the arguments (config is a Config)
Validate ==
    /\ pc = "start"
    /\ IF query_type # "str"
       THEN /\ raised' = "TypeError"
            /\ pc' = "raised"
       ELSE IF query = <<>> \/ Strip(query) = <<>>
       THEN /\ raised' = "ValueError"
            /\ pc' = "raised"
       ELSE /\ raised' = raised
            /\ pc' = "harmful"
    /\ UNCHANGED << inputs, caller, keyword_matches, available_tools, llm_attempts,
                    llm_calls, llm_outcome, llm_suggestion, result >>

\* CheckHarmful with the document check placed before it: a query with a
\* document keyword and the document tool enabled goes on to that check
CheckHarmful_after_document ==
    /\ pc = "harmful"
    /\ IF /\ _contains_harmful_pattern(query_lower,
                Get(config.routing_rules, "harmful_patterns", <<>>))
          /\ ~ (/\ _matches_keywords(query_lower,
                       Get(config.routing_rules, "document_keywords", <<>>))
                /\ is_tool_enabled(config, "document_retriever"))
       THEN /\ result' = "fallback"
            /\ pc' = "done"
       ELSE /\ result' = result
            /\ pc' = "document"
    /\ UNCHANGED << inputs, caller, keyword_matches, available_tools, llm_attempts,
                    llm_calls, llm_outcome, llm_suggestion, raised >>

\* CheckHarmful reading the list with a subscript: routing_rules without
\* harmful_patterns makes the call raise KeyError
CheckHarmful_subscript ==
    /\ pc = "harmful"
    /\ IF "harmful_patterns" \notin DOMAIN config.routing_rules
       THEN /\ raised' = "KeyError"
            /\ result' = result
            /\ pc' = "raised"
       ELSE IF _contains_harmful_pattern(query_lower,
                    config.routing_rules["harmful_patterns"])
       THEN /\ result' = "fallback"
            /\ raised' = raised
            /\ pc' = "done"
       ELSE /\ result' = result
            /\ raised' = raised
            /\ pc' = "document"
    /\ UNCHANGED << inputs, caller, keyword_matches, available_tools, llm_attempts,
                    llm_calls, llm_outcome, llm_suggestion >>

\* decide_tool, lines 61-67: harmful patterns come first
CheckHarmful ==
    /\ pc = "harmful"
    /\ IF _contains_harmful_pattern(query_lower,
                Get(config.routing_rules, "harmful_patterns", <<>>))
       THEN /\ result' = "fallback"
            /\ pc' = "done"
       ELSE /\ result' = result
            /\ pc' = "document"
    /\ UNCHANGED << inputs, caller, keyword_matches, available_tools, llm_attempts,
                    llm_calls, llm_outcome, llm_suggestion, raised >>

\* _check_category giving up on the later categories when the matched one
\* has its tool disabled
_check_category_stops(at, key, category, tool, next) ==
    /\ pc = at
    /\ IF _matches_keywords(query_lower, Get(config.routing_rules, key, <<>>))
       THEN /\ keyword_matches' = Append(keyword_matches, category)
            /\ IF is_tool_enabled(config, tool)
               THEN /\ result' = category
                    /\ pc' = "done"
               ELSE /\ result' = result
                    /\ pc' = "ambiguity"
       ELSE /\ keyword_matches' = keyword_matches
            /\ result' = result
            /\ pc' = next
    /\ UNCHANGED << inputs, caller, available_tools, llm_attempts, llm_calls,
                    llm_outcome, llm_suggestion, raised >>

\* _check_category going on to the later categories after a match whose tool
\* is enabled
_check_category_goes_on(at, key, category, tool, next) ==
    /\ pc = at
    /\ IF _matches_keywords(query_lower, Get(config.routing_rules, key, <<>>))
       THEN /\ keyword_matches' = Append(keyword_matches, category)
            /\ IF is_tool_enabled(config, tool) /\ next = "ambiguity"
               THEN /\ result' = category
                    /\ pc' = "done"
               ELSE /\ result' = result
                    /\ pc' = next
       ELSE /\ keyword_matches' = keyword_matches
            /\ result' = result
            /\ pc' = next
    /\ UNCHANGED << inputs, caller, available_tools, llm_attempts, llm_calls,
                    llm_outcome, llm_suggestion, raised >>

\* decide_tool, lines 72-97: one keyword category
_check_category(at, key, category, tool, next) ==
    /\ pc = at
    /\ IF _matches_keywords(query_lower, Get(config.routing_rules, key, <<>>))
       THEN /\ keyword_matches' = Append(keyword_matches, category)
            /\ IF is_tool_enabled(config, tool)
               THEN /\ result' = category
                    /\ pc' = "done"
               ELSE /\ result' = result
                    /\ pc' = next
       ELSE /\ keyword_matches' = keyword_matches
            /\ result' = result
            /\ pc' = next
    /\ UNCHANGED << inputs, caller, available_tools, llm_attempts, llm_calls,
                    llm_outcome, llm_suggestion, raised >>

\* decide_tool, lines 72-79
CheckDocument ==
    _check_category("document", "document_keywords", "doc", "document_retriever",
                    "database")

\* decide_tool, lines 81-88
CheckDatabase ==
    _check_category("database", "database_keywords", "db", "database_query", "web")

\* decide_tool, lines 90-97
CheckWeb ==
    _check_category("web", "web_keywords", "web", "web_search", "ambiguity")

\* CheckAmbiguity ending with the refusal where nothing is left to try
CheckAmbiguity_refuses ==
    /\ pc = "ambiguity"
    /\ IF is_ambiguous_query(query, keyword_matches) \/ keyword_matches = <<>>
       THEN /\ pc' = "llm_route_query"
            /\ llm_attempts' = llm_attempts + 1
            /\ result' = result
       ELSE /\ pc' = "done"
            /\ llm_attempts' = llm_attempts
            /\ result' = "fallback"
    /\ UNCHANGED << inputs, caller, keyword_matches, available_tools, llm_calls,
                    llm_outcome, llm_suggestion, raised >>

\* CheckAmbiguity asking the ambiguity detector only
CheckAmbiguity_detector_only ==
    /\ pc = "ambiguity"
    /\ IF is_ambiguous_query(query, keyword_matches)
       THEN /\ pc' = "llm_route_query"
            /\ llm_attempts' = llm_attempts + 1
            /\ result' = result
       ELSE /\ pc' = "done"
            /\ llm_attempts' = llm_attempts
            /\ result' = "direct"
    /\ UNCHANGED << inputs, caller, keyword_matches, available_tools, llm_calls,
                    llm_outcome, llm_suggestion, raised >>

\* decide_tool, lines 99-100 and 115-116
CheckAmbiguity ==
    /\ pc = "ambiguity"
    /\ IF is_ambiguous_query(query, keyword_matches) \/ keyword_matches = <<>>
       THEN /\ pc' = "llm_route_query"
            /\ llm_attempts' = llm_attempts + 1
            /\ result' = result
       ELSE /\ pc' = "done"
            /\ llm_attempts' = llm_attempts
            /\ result' = "direct"
    /\ UNCHANGED << inputs, caller, keyword_matches, available_tools, llm_calls,
                    llm_outcome, llm_suggestion, raised >>

\* LlmRouteQuery with a missing enable_llm_fallback taken as true
LlmRouteQuery_default_on ==
    /\ pc = "llm_route_query"
    /\ IF ~ Get(config.routing_rules, "enable_llm_fallback", TRUE)
       THEN /\ pc' = "suggestion"
            /\ available_tools' = available_tools
       ELSE IF ~ ANTHROPIC_AVAILABLE
       THEN /\ pc' = "suggestion"
            /\ available_tools' = available_tools
       ELSE /\ pc' = "call_llm"
            /\ available_tools' = _available_tools(config)
    /\ llm_suggestion' = "None"
    /\ UNCHANGED << inputs, caller, keyword_matches, llm_attempts, llm_calls,
                    llm_outcome, result, raised >>

\* LlmRouteQuery reading the flag with setdefault: a configuration without
\* enable_llm_fallback leaves the call with the key written into it
LlmRouteQuery_setdefault ==
    /\ pc = "llm_route_query"
    /\ config' = [config EXCEPT !.routing_rules =
                     IF "enable_llm_fallback" \in DOMAIN @
                     THEN @ ELSE @ @@ [enable_llm_fallback |-> FALSE]]
    /\ IF ~ Get(config.routing_rules, "enable_llm_fallback", FALSE)
       THEN /\ pc' = "suggestion"
            /\ available_tools' = available_tools
       ELSE IF ~ ANTHROPIC_AVAILABLE
       THEN /\ pc' = "suggestion"
            /\ available_tools' = available_tools
       ELSE /\ pc' = "call_llm"
            /\ available_tools' = _available_tools(config)
    /\ llm_suggestion' = "None"
    /\ UNCHANGED << query_type, query, ANTHROPIC_AVAILABLE, ANTHROPIC_API_KEY,
                    caller, keyword_matches, llm_attempts, llm_calls,
                    llm_outcome, result, raised >>

\* llm_route_query, lines 62-89: validation, the two gates, the prompt's tools
LlmRouteQuery ==
    /\ pc = "llm_route_query"
    /\ IF ~ Get(config.routing_rules, "enable_llm_fallback", FALSE)
       THEN /\ pc' = "suggestion"
            /\ available_tools' = available_tools
       ELSE IF ~ ANTHROPIC_AVAILABLE
       THEN /\ pc' = "suggestion"
            /\ available_tools' = available_tools
       ELSE /\ pc' = "call_llm"
            /\ available_tools' = _available_tools(config)
    /\ llm_suggestion' = "None"
    /\ UNCHANGED << inputs, caller, keyword_matches, llm_attempts, llm_calls,
                    llm_outcome, result, raised >>

\* CallLlmForRouting without the except clauses: an exception of the
\* collaborator leaves decide_tool
CallLlmForRouting_raises ==
    /\ pc = "call_llm"
    /\ \E outcome \in IF ANTHROPIC_AVAILABLE /\ ANTHROPIC_API_KEY
                      THEN LlmOutcomes ELSE {NotCalled} :
          /\ llm_outcome' = outcome
          /\ llm_calls' = IF outcome = NotCalled THEN llm_calls ELSE llm_calls + 1
          /\ llm_suggestion' = _validate_suggestion(_parse_llm_response(outcome))
          /\ IF outcome.kind \in {"APITimeoutError", "APIConnectionError",
                                  "APIError", "Exception"}
             THEN raised' = outcome.kind /\ pc' = "raised"
             ELSE raised' = raised /\ pc' = "suggestion"
    /\ UNCHANGED << inputs, caller, keyword_matches, available_tools, llm_attempts,
                    result >>

\* CallLlmForRouting with one retry: after a failure of the collaborator the
\* request is sent a second time
CallLlmForRouting_retries ==
    /\ pc = "call_llm"
    /\ \E outcome \in IF ANTHROPIC_AVAILABLE /\ ANTHROPIC_API_KEY
                      THEN LlmOutcomes ELSE {NotCalled} :
          /\ llm_outcome' = outcome
          /\ llm_calls' = IF outcome = NotCalled THEN llm_calls ELSE llm_calls + 1
          /\ llm_suggestion' = _validate_suggestion(_parse_llm_response(outcome))
          /\ pc' = IF outcome.kind \in LlmFailures /\ llm_calls = 0
                   THEN "call_llm" ELSE "suggestion"
    /\ UNCHANGED << inputs, caller, keyword_matches, available_tools, llm_attempts,
                    result, raised >>

\* llm_route_query, lines 91-102, around _call_llm_for_routing, lines 288-338
CallLlmForRouting ==
    /\ pc = "call_llm"
    /\ \E outcome \in IF ANTHROPIC_AVAILABLE /\ ANTHROPIC_API_KEY
                      THEN LlmOutcomes ELSE {NotCalled} :
          /\ llm_outcome' = outcome
          /\ llm_calls' = IF outcome = NotCalled THEN llm_calls ELSE llm_calls + 1
          /\ llm_suggestion' = _validate_suggestion(_parse_llm_response(outcome))
    /\ pc' = "suggestion"
    /\ UNCHANGED << inputs, caller, keyword_matches, available_tools, llm_attempts,
                    result, raised >>

\* decide_tool, lines 102-116: the suggestion is used or dropped
UseSuggestion ==
    /\ pc = "suggestion"
    /\ result' = _use_suggestion(config, llm_suggestion)
    /\ pc' = "done"
    /\ UNCHANGED << inputs, caller, keyword_matches, available_tools, llm_attempts,
                    llm_calls, llm_outcome, llm_suggestion, raised >>

(***************************************************************************)
(* Inputs of a decide_tool call                                            *)
(***************************************************************************)
\* the characters of the exhaustively enumerated queries: a document, a
\* database and a web keyword letter, a harmful letter and the space
QueryChars == {"d", "b", "w", "h", " "}

\* the first characters of the longer queries: the same, the harmful letter
\* in upper case and the tab
HeadChars == QueryChars \cup {"H", "\t"}

\* every string of exactly n characters
StringsOfLen(n) == [1..n -> QueryChars]

\* k filler words, each preceded by the separator sep
Filler(k, sep) == [i \in 1..(2 * k) |-> IF i % 2 = 1 THEN sep ELSE "x"]

\* the queries: every string of up to MaxQueryLen characters (the empty and
\* the all-whitespace ones included), and every string of at most one
\* character followed by up to MaxPad filler words, which are separated by
\* spaces or by tabs
Queries ==
    (UNION {StringsOfLen(n) : n \in 0..MaxQueryLen})
        \cup {head \o Filler(k, sep) :
                 head \in {<<>>} \cup {<<c>> : c \in HeadChars},
                 k \in 1..MaxPad, sep \in {" ", "\t"}}

\* the tools mapping: each tool absent, disabled or enabled
ToolMappings ==
    UNION {[present -> {[enabled |-> TRUE], [enabled |-> FALSE]}] :
              present \in SUBSET ToolNames}

\* routing_rules: every list holds an entry that never occurs in a query
\* and a one-letter entry, written in lower or in upper case
KeywordRules ==
    { [ document_keywords |-> << <<"x", "x">>, <<"d">> >>,
        database_keywords |-> << <<"B">> >>,
        web_keywords      |-> << <<"w">>, <<"x", "x">> >>,
        harmful_patterns  |-> << <<"x", "x">>, <<"H">> >> ] }

\* routing_rules with enable_llm_fallback true, false or missing
RoutingRules ==
    UNION { {r, r @@ [enable_llm_fallback |-> TRUE],
                r @@ [enable_llm_fallback |-> FALSE]} : r \in KeywordRules }

Configs == [tools : ToolMappings, routing_rules : RoutingRules]

\* a call that has not started
FreshCall ==
    /\ keyword_matches = <<>>
    /\ available_tools = <<>>
    /\ llm_attempts = 0
    /\ llm_calls = 0
    /\ llm_outcome = NotCalled
    /\ llm_suggestion = "None"
    /\ result = "none"
    /\ raised = "none"

\* the caller's record before its first call has returned
NoFirst == [query |-> <<>>, result |-> "none", raised |-> "none",
            outcome |-> NotCalled]

\* the locals of a thread that does not exist
NoThread == [pc |-> "absent"]

\* the configuration was loaded from its file, which nobody wrote since
LoadedOnce ==
    /\ config_file = [status |-> "ok", content |-> config]
    /\ last_reload = "none"
    /\ edited = FALSE
    /\ config_path = "none"
    /\ disk = << >>
    /\ tools = << >>

\* one caller, one thread, one call
SingleCall ==
    /\ call_no = 1
    /\ first = NoFirst
    /\ thread = "A"
    /\ parked = NoThread
    /\ response = "none"
    /\ LoadedOnce

Init ==
    /\ \/ query_type = "str" /\ query \in Queries
       \/ query_type = "int" /\ query = <<>>
    /\ config \in Configs
    /\ ANTHROPIC_AVAILABLE \in BOOLEAN
    /\ ANTHROPIC_API_KEY \in BOOLEAN
    /\ pc = "start"
    /\ entry = "decide_tool"
    /\ FreshCall
    /\ SingleCall

Next ==
    \/ Validate
    \/ CheckHarmful
    \/ CheckDocument
    \/ CheckDatabase
    \/ CheckWeb
    \/ CheckAmbiguity
    \/ LlmRouteQuery
    \/ CallLlmForRouting
    \/ UseSuggestion

Spec == Init /\ [][Next]_vars

(***************************************************************************)
(* SupervisorAgent.respond: the checks of the query, the call of           *)
(* decide_tool, the dispatch on what it returned.                          *)
(***************************************************************************)

\* respond, lines 99-104: a query that is falsy, not a string or all
\* whitespace raises ValueError; any other goes to decide_tool (line 107)
RespondValidate ==
    /\ pc = "respond"
    /\ IF query_type # "str" \/ query = <<>>
       THEN /\ raised' = "ValueError"
            /\ pc' = "raised"
       ELSE IF Strip(query) = <<>>
       THEN /\ raised' = "ValueError"
            /\ pc' = "raised"
       ELSE /\ raised' = raised
            /\ pc' = "start"
    /\ UNCHANGED << inputs, caller, keyword_matches, available_tools, llm_attempts,
                    llm_calls, llm_outcome, llm_suggestion, result >>

\* _handle_tool without the look at the tool's flag
_handle_tool_unchecked(tool_name, stub) == stub

\* a tool handler: the tool's stub when the tool is enabled, handle_direct
\* when it is not
_handle_tool(tool_name, stub) ==
    IF is_tool_enabled(config, tool_name) THEN stub ELSE "handle_direct"

\* RespondDispatch with the direct handler for whatever is not a tool
\* category
RespondDispatch_direct_by_default ==
    /\ pc = "done"
    /\ entry = "respond"
    /\ response' =
          CASE result = "doc" -> _handle_tool("document_retriever", "stub_document_retrieval")
            [] result = "db"  -> _handle_tool("database_query", "stub_database_query")
            [] result = "web" -> _handle_tool("web_search", "stub_web_search")
            [] OTHER -> "handle_direct"
    /\ pc' = "responded"
    /\ UNCHANGED << inputs, files, langchain, entry, call_no, first, thread, parked, keyword_matches,
                    available_tools, llm_attempts, llm_calls, llm_outcome,
                    llm_suggestion, result, raised >>

\* respond, lines 109-123: the handler of the category, handle_fallback for
\* anything else
RespondDispatch ==
    /\ pc = "done"
    /\ entry = "respond"
    /\ response' =
          CASE result = "direct" -> "handle_direct"
            [] result = "doc" -> _handle_tool("document_retriever", "stub_document_retrieval")
            [] result = "db"  -> _handle_tool("database_query", "stub_database_query")
            [] result = "web" -> _handle_tool("web_search", "stub_web_search")
            [] OTHER -> "fallback_message"
    /\ pc' = "responded"
    /\ UNCHANGED << inputs, files, langchain, entry, call_no, first, thread, parked, keyword_matches,
                    available_tools, llm_attempts, llm_calls, llm_outcome,
                    llm_suggestion, result, raised >>

\* the calls of the agent's callers: respond, or decide_tool itself, with the
\* SDK installed and the key set
InitAgent ==
    /\ \/ query_type = "str" /\ query \in Queries
       \/ query_type = "int" /\ query = <<>>
    /\ config \in Configs
    /\ ANTHROPIC_AVAILABLE = TRUE
    /\ ANTHROPIC_API_KEY = TRUE
    /\ \/ entry = "decide_tool" /\ pc = "start"
       \/ entry = "respond" /\ pc = "respond"
    /\ FreshCall
    /\ SingleCall

NextAgent ==
    \/ RespondValidate
    \/ Next
    \/ RespondDispatch

SpecAgent == InitAgent /\ [][NextAgent]_vars

(***************************************************************************)
(* One caller calling decide_tool several times on the same configuration, *)
(* as the tests do that route query after query.                           *)
(***************************************************************************)
\* the queries a caller sends between two calls with its first query: one
\* with two keywords, one of whitespace, a harmful one
OtherQueries == { <<"d", "w">>, <<" ">>, <<"h">> }

\* the first queries of a caller: every query of up to two characters, and
\* a query of five filler words
RepeatQueries ==
    StringsOfLen(1) \cup StringsOfLen(2) \cup {Filler(MaxPad, " ")}

\* CallAgain with keyword_matches kept in a place that outlives the call
CallAgain_keeps_matches ==
    /\ pc \in {"done", "raised"}
    /\ call_no < MaxCalls
    /\ first' = IF call_no = 1
                THEN [query |-> query, result |-> result, raised |-> raised,
                      outcome |-> llm_outcome]
                ELSE first
    /\ call_no' = call_no + 1
    /\ query' \in {first'.query} \cup OtherQueries
    /\ pc' = "start"
    /\ available_tools' = <<>>
    /\ llm_attempts' = 0
    /\ llm_calls' = 0
    /\ llm_outcome' = NotCalled
    /\ llm_suggestion' = "None"
    /\ result' = "none"
    /\ raised' = "none"
    /\ UNCHANGED << query_type, config, ANTHROPIC_AVAILABLE, ANTHROPIC_API_KEY,
                    entry, thread, parked, response, files, langchain, keyword_matches >>

\* the caller notes what its first call gave and calls decide_tool again,
\* with the same query or another: the new call starts with fresh locals
\* (router.py 62, 70, 101 assign them before they are read)
CallAgain ==
    /\ pc \in {"done", "raised"}
    /\ call_no < MaxCalls
    /\ first' = IF call_no = 1
                THEN [query |-> query, result |-> result, raised |-> raised,
                      outcome |-> llm_outcome]
                ELSE first
    /\ call_no' = call_no + 1
    /\ query' \in {first'.query} \cup OtherQueries
    /\ pc' = "start"
    /\ keyword_matches' = <<>>
    /\ available_tools' = <<>>
    /\ llm_attempts' = 0
    /\ llm_calls' = 0
    /\ llm_outcome' = NotCalled
    /\ llm_suggestion' = "None"
    /\ result' = "none"
    /\ raised' = "none"
    /\ UNCHANGED << query_type, config, ANTHROPIC_AVAILABLE, ANTHROPIC_API_KEY,
                    entry, thread, parked, response, files, langchain >>

InitRepeat ==
    /\ query_type = "str"
    /\ query \in RepeatQueries
    /\ config \in Configs
    /\ ANTHROPIC_AVAILABLE = TRUE
    /\ ANTHROPIC_API_KEY = TRUE
    /\ pc = "start"
    /\ entry = "decide_tool"
    /\ FreshCall
    /\ SingleCall

NextRepeat ==
    \/ Next
    \/ CallAgain

SpecRepeat == InitRepeat /\ [][NextRepeat]_vars

(***************************************************************************)
(* Two threads calling decide_tool on one Config object.  The module       *)
(* variables of a call are the locals of the running thread; a switch of   *)
(* threads puts them aside and takes up those of the other thread.  The    *)
(* configuration, ANTHROPIC_AVAILABLE and the API key are what the two     *)
(* calls share.                                                            *)
(***************************************************************************)
\* the locals of the running thread's call
Locals ==
    [ query_type |-> query_type, query |-> query, pc |-> pc,
      keyword_matches |-> keyword_matches, available_tools |-> available_tools,
      llm_attempts |-> llm_attempts, llm_calls |-> llm_calls,
      llm_outcome |-> llm_outcome, llm_suggestion |-> llm_suggestion,
      result |-> result, raised |-> raised ]

\* Switch with keyword_matches a list of the module, which both calls append to
Switch_shares_matches ==
    /\ parked # NoThread
    /\ thread' = IF thread = "A" THEN "B" ELSE "A"
    /\ parked' = Locals
    /\ query_type' = parked.query_type
    /\ query' = parked.query
    /\ pc' = parked.pc
    /\ keyword_matches' = keyword_matches
    /\ available_tools' = parked.available_tools
    /\ llm_attempts' = parked.llm_attempts
    /\ llm_calls' = parked.llm_calls
    /\ llm_outcome' = parked.llm_outcome
    /\ llm_suggestion' = parked.llm_suggestion
    /\ result' = parked.result
    /\ raised' = parked.raised
    /\ UNCHANGED << config, ANTHROPIC_AVAILABLE, ANTHROPIC_API_KEY, entry,
                    call_no, first, response, files, langchain >>

\* the scheduler lets the other thread run: every name assigned in
\* decide_tool (router.py 62-101) and llm_route_query (llm_router.py 70-102)
\* is a local of the call, none is a module-level name
Switch ==
    /\ parked # NoThread
    /\ thread' = IF thread = "A" THEN "B" ELSE "A"
    /\ parked' = Locals
    /\ query_type' = parked.query_type
    /\ query' = parked.query
    /\ pc' = parked.pc
    /\ keyword_matches' = parked.keyword_matches
    /\ available_tools' = parked.available_tools
    /\ llm_attempts' = parked.llm_attempts
    /\ llm_calls' = parked.llm_calls
    /\ llm_outcome' = parked.llm_outcome
    /\ llm_suggestion' = parked.llm_suggestion
    /\ result' = parked.result
    /\ raised' = parked.raised
    /\ UNCHANGED << config, ANTHROPIC_AVAILABLE, ANTHROPIC_API_KEY, entry,
                    call_no, first, response, files, langchain >>

\* the queries of the two threads: a document and a web keyword, both, a
\* harmful token, a filler word, whitespace
ConcurrentQueries ==
    { <<"d">>, <<"w">>, <<"d", "w">>, <<"h">>, <<"x">>, <<" ">> }

\* the configurations the two threads share: every tool listed, enabled or
\* not, enable_llm_fallback true or false
ConcurrentConfigs ==
    {c \in Configs : /\ DOMAIN c.tools = ToolNames
                     /\ "enable_llm_fallback" \in DOMAIN c.routing_rules}

\* a call of the other thread that has not started
_fresh_locals(q) ==
    [ query_type |-> "str", query |-> q, pc |-> "start",
      keyword_matches |-> <<>>, available_tools |-> <<>>,
      llm_attempts |-> 0, llm_calls |-> 0, llm_outcome |-> NotCalled,
      llm_suggestion |-> "None", result |-> "none", raised |-> "none" ]

InitConcurrent ==
    /\ query_type = "str"
    /\ query \in ConcurrentQueries
    /\ config \in ConcurrentConfigs
    /\ ANTHROPIC_AVAILABLE = TRUE
    /\ ANTHROPIC_API_KEY = TRUE
    /\ pc = "start"
    /\ entry = "decide_tool"
    /\ FreshCall
    /\ call_no = 1
    /\ first = NoFirst
    /\ response = "none"
    /\ LoadedOnce
    /\ thread = "A"
    /\ parked \in {_fresh_locals(q) : q \in ConcurrentQueries}

NextConcurrent ==
    \/ Next
    \/ Switch

SpecConcurrent == InitConcurrent /\ [][NextConcurrent]_vars

(***************************************************************************)
(* One caller calling decide_tool a second time with the letters of the    *)
(* query, or of the configured keywords and patterns, in another case, as  *)
(* test_router_keyword_case_insensitivity does with its upper-case words.  *)
(***************************************************************************)
\* str.upper() of one character
UpperChar(c) ==
    CASE c = "d" -> "D"
      [] c = "o" -> "O"
      [] c = "c" -> "C"
      [] c = "b" -> "B"
      [] c = "w" -> "W"
      [] c = "e" -> "E"
      [] c = "h" -> "H"
      [] c = "x" -> "X"
      [] OTHER   -> c

\* str.upper()
Upper(s) == [i \in 1..Len(s) |-> UpperChar(s[i])]

\* every second letter in upper case, the others in lower case
Alternate(s) ==
    [i \in 1..Len(s) |-> IF i % 2 = 0 THEN UpperChar(s[i]) ELSE LowerChar(s[i])]

\* the words of a list, each in upper case or each in lower case
_recase_list(words, case) ==
    [k \in 1..Len(words) |->
        IF case = "upper" THEN Upper(words[k]) ELSE Lower(words[k])]

\* the configuration with its keywords and patterns in that case
_recase_config(c, case) ==
    [c EXCEPT !.routing_rules =
        [key \in DOMAIN @ |->
            IF key = "enable_llm_fallback" THEN @[key]
            ELSE _recase_list(@[key], case)]]

\* the first queries of a caller: every query of up to two characters and
\* every query of one character and one filler word
CaseQueries ==
    StringsOfLen(1) \cup StringsOfLen(2)
        \cup {<<c>> \o Filler(1, " ") : c \in HeadChars}

\* the caller notes what its first call gave and calls decide_tool with the
\* query, or the configuration's words, or both, in another letter case
CallRecased ==
    /\ pc \in {"done", "raised"}
    /\ call_no = 1
    /\ first' = [query |-> query, result |-> result, raised |-> raised,
                 outcome |-> llm_outcome]
    /\ call_no' = call_no + 1
    /\ query' \in {query, Upper(query), Alternate(query)}
    /\ config' \in {config, _recase_config(config, "upper"),
                    _recase_config(config, "lower")}
    /\ query' # query \/ config' # config
    /\ pc' = "start"
    /\ keyword_matches' = <<>>
    /\ available_tools' = <<>>
    /\ llm_attempts' = 0
    /\ llm_calls' = 0
    /\ llm_outcome' = NotCalled
    /\ llm_suggestion' = "None"
    /\ result' = "none"
    /\ raised' = "none"
    /\ UNCHANGED << query_type, ANTHROPIC_AVAILABLE, ANTHROPIC_API_KEY,
                    entry, thread, parked, response, files, langchain >>

InitCase ==
    /\ query_type = "str"
    /\ query \in CaseQueries
    /\ config \in ConcurrentConfigs
    /\ ANTHROPIC_AVAILABLE = TRUE
    /\ ANTHROPIC_API_KEY = TRUE
    /\ pc = "start"
    /\ entry = "decide_tool"
    /\ FreshCall
    /\ SingleCall

NextCase ==
    \/ Next
    \/ CallRecased

SpecCase == InitCase /\ [][NextCase]_vars

(***************************************************************************)
(* is_ambiguous_query called by itself, as TestAmbiguityDetection calls    *)
(* it: on any query and any list of matched categories.                    *)
(***************************************************************************)
\* the lists of matched categories: up to three entries of doc, db, web
MatchLists ==
    UNION {[1..n -> {"doc", "db", "web"}] : n \in 0..Cardinality(ToolNames)}

\* the call: the returned bool is kept as Python prints it
CallIsAmbiguousQuery ==
    /\ pc = "is_ambiguous_query"
    /\ result' = IF is_ambiguous_query(query, keyword_matches)
                 THEN "True" ELSE "False"
    /\ pc' = "returned"
    /\ UNCHANGED << inputs, caller, keyword_matches, available_tools,
                    llm_attempts, llm_calls, llm_outcome, llm_suggestion, raised >>

InitAmbiguity ==
    /\ query_type = "str"
    /\ query \in Queries
    /\ keyword_matches \in MatchLists
    /\ config \in {c \in ConcurrentConfigs :
                      \A t \in ToolNames : c.tools[t].enabled}
    /\ ANTHROPIC_AVAILABLE = TRUE
    /\ ANTHROPIC_API_KEY = TRUE
    /\ pc = "is_ambiguous_query"
    /\ entry = "is_ambiguous_query"
    /\ available_tools = <<>>
    /\ llm_attempts = 0
    /\ llm_calls = 0
    /\ llm_outcome = NotCalled
    /\ llm_suggestion = "None"
    /\ result = "none"
    /\ raised = "none"
    /\ SingleCall

NextAmbiguity == CallIsAmbiguousQuery

SpecAmbiguity == InitAmbiguity /\ [][NextAmbiguity]_vars

(***************************************************************************)
(* decide_tool on configurations that lack lists of routing_rules and      *)
(* entries of tools.                                                       *)
(***************************************************************************)
\* the four lists of routing_rules
RuleKeys ==
    {"document_keywords", "database_keywords", "web_keywords", "harmful_patterns"}

\* routing_rules with any of the four lists left out, enable_llm_fallback
\* true or left out
SparseRoutingRules ==
    UNION { { [key \in present |-> r[key]],
              [key \in present |-> r[key]] @@ [enable_llm_fallback |-> TRUE] } :
            r \in KeywordRules, present \in SUBSET RuleKeys }

SparseConfigs == [tools : ToolMappings, routing_rules : SparseRoutingRules]

\* the queries: every query of up to two characters, and every query of one
\* character and one filler word
InitSparse ==
    /\ query_type = "str"
    /\ query \in CaseQueries
    /\ config \in SparseConfigs
    /\ ANTHROPIC_AVAILABLE = TRUE
    /\ ANTHROPIC_API_KEY = TRUE
    /\ pc = "start"
    /\ entry = "decide_tool"
    /\ FreshCall
    /\ SingleCall

SpecSparse == InitSparse /\ [][Next]_vars

(***************************************************************************)
(* The scenarios of test_all_existing_router_tests_still_pass: five        *)
(* queries on a configuration with two words in every list and every tool  *)
(* enabled.                                                                *)
(***************************************************************************)
\* "What is the capital of France?"
ScenarioDirect ==
    << "W", "h", "a", "t", " ", "i", "s", " ", "t", "h", "e", " ",
       "c", "a", "p", "i", "t", "a", "l", " ", "o", "f", " ", "F",
       "r", "a", "n", "c", "e", "?" >>

\* "According to the design document, what is X?"
ScenarioDocument ==
    << "A", "c", "c", "o", "r", "d", "i", "n", "g", " ", "t", "o",
       " ", "t", "h", "e", " ", "d", "e", "s", "i", "g", "n", " ",
       "d", "o", "c", "u", "m", "e", "n", "t", ",", " ", "w", "h",
       "a", "t", " ", "i", "s", " ", "X", "?" >>

\* "How many accounts were created?"
ScenarioDatabase ==
    << "H", "o", "w", " ", "m", "a", "n", "y", " ", "a", "c", "c",
       "o", "u", "n", "t", "s", " ", "w", "e", "r", "e", " ", "c",
       "r", "e", "a", "t", "e", "d", "?" >>

\* "Latest news about AI"
ScenarioWeb ==
    << "L", "a", "t", "e", "s", "t", " ", "n", "e", "w", "s", " ",
       "a", "b", "o", "u", "t", " ", "A", "I" >>

\* "DELETE all records"
ScenarioHarmful ==
    << "D", "E", "L", "E", "T", "E", " ", "a", "l", "l", " ", "r",
       "e", "c", "o", "r", "d", "s" >>

ScenarioQueries ==
    {ScenarioDirect, ScenarioDocument, ScenarioDatabase, ScenarioWeb,
     ScenarioHarmful}

\* the lists of the scenarios
ScenarioRules ==
    [ document_keywords |-> << <<"d", "o", "c", "u", "m", "e", "n", "t">>, <<"p", "l", "a", "n">> >>,
      database_keywords |-> << <<"a", "c", "c", "o", "u", "n", "t">>, <<"s", "a", "l", "e", "s">> >>,
      web_keywords      |-> << <<"n", "e", "w", "s">>, <<"l", "a", "t", "e", "s", "t">> >>,
      harmful_patterns  |-> << <<"d", "e", "l", "e", "t", "e">>, <<"d", "r", "o", "p">> >> ]

\* the configurations of the scenarios: every tool enabled,
\* enable_llm_fallback left out, false or true
ScenarioConfigs ==
    { [ tools |-> [t \in ToolNames |-> [enabled |-> TRUE]],
        routing_rules |-> r ] :
      r \in { ScenarioRules,
              ScenarioRules @@ [enable_llm_fallback |-> FALSE],
              ScenarioRules @@ [enable_llm_fallback |-> TRUE] } }

InitScenario ==
    /\ query_type = "str"
    /\ query \in ScenarioQueries
    /\ config \in ScenarioConfigs
    /\ ANTHROPIC_AVAILABLE \in BOOLEAN
    /\ ANTHROPIC_API_KEY \in BOOLEAN
    /\ pc = "start"
    /\ entry = "decide_tool"
    /\ FreshCall
    /\ SingleCall

SpecScenario == InitScenario /\ [][Next]_vars

(***************************************************************************)
(* SupervisorAgent over its lifetime: the file at config_path is written   *)
(* from outside, reload_config loads it again, respond is called again.    *)
(***************************************************************************)
\* the configurations the file may hold: the document tool enabled or not,
\* the document keywords there or not
FileConfigs ==
    {c \in SparseConfigs :
        /\ DOMAIN c.tools = ToolNames
        /\ c.tools["database_query"].enabled
        /\ c.tools["web_search"].enabled
        /\ RuleKeys \ {"document_keywords"} \subseteq DOMAIN c.routing_rules
        /\ "enable_llm_fallback" \in DOMAIN c.routing_rules}

\* what load_config may find at the path: a valid file, no file, a file
\* that is not JSON, JSON that is not an object, an object that fails
\* validate_config
FileStates ==
    {[status |-> "ok", content |-> c] : c \in FileConfigs}
        \cup {[status |-> s] : s \in {"missing", "invalid_json", "not_a_dict",
                                      "invalid"}}

\* load_config, lines 92-110: the exception for a file of that status
_load_config_error(status) ==
    CASE status = "missing"      -> "FileNotFoundError"
      [] status = "invalid_json" -> "ValueError"
      [] status = "not_a_dict"   -> "AttributeError"
      [] status = "invalid"      -> "ValueError"

\* the positions at which the agent is not inside a call
Idle == {"idle", "responded", "raised", "reloaded"}

\* the queries sent to the agent
AgentQueries == { <<"d">>, <<"h">>, <<"x">>, <<"w", " ", "d">>, <<" ">> }

\* somebody writes, replaces or removes the file
EditFile ==
    /\ pc \in Idle
    /\ config_file' \in FileStates \ {config_file}
    /\ edited' = TRUE
    /\ UNCHANGED << inputs, langchain, entry, call_no, first, thread, parked,
                    response, last_reload, pc, keyword_matches, available_tools,
                    llm_attempts, llm_calls, llm_outcome, llm_suggestion,
                    result, raised >>

\* ReloadConfig that loads and validates the file and keeps the old object
ReloadConfig_keeps_old ==
    /\ pc \in Idle
    /\ IF config_file.status = "ok"
       THEN /\ config' = config
            /\ last_reload' = "ok"
            /\ edited' = FALSE
            /\ raised' = "none"
            /\ pc' = "reloaded"
       ELSE /\ config' = config
            /\ last_reload' = _load_config_error(config_file.status)
            /\ edited' = edited
            /\ raised' = _load_config_error(config_file.status)
            /\ pc' = "raised"
    /\ UNCHANGED << query_type, query, ANTHROPIC_AVAILABLE, ANTHROPIC_API_KEY,
                    entry, call_no, first, thread, parked, response,
                    config_file, langchain, keyword_matches, available_tools,
                    llm_attempts, llm_calls, llm_outcome, llm_suggestion,
                    result >>

\* ReloadConfig that drops the old object before it loads the file
ReloadConfig_drops_first ==
    /\ pc \in Idle
    /\ IF config_file.status = "ok"
       THEN /\ config' = config_file.content
            /\ last_reload' = "ok"
            /\ edited' = FALSE
            /\ raised' = "none"
            /\ pc' = "reloaded"
       ELSE /\ config' = [tools |-> << >>, routing_rules |-> << >>]
            /\ last_reload' = _load_config_error(config_file.status)
            /\ edited' = edited
            /\ raised' = _load_config_error(config_file.status)
            /\ pc' = "raised"
    /\ UNCHANGED << query_type, query, ANTHROPIC_AVAILABLE, ANTHROPIC_API_KEY,
                    entry, call_no, first, thread, parked, response,
                    config_file, langchain, keyword_matches, available_tools,
                    llm_attempts, llm_calls, llm_outcome, llm_suggestion,
                    result >>

\* reload_config, line 145: self.config = load_config(self.config_path); an
\* exception of load_config leaves before the assignment
ReloadConfig ==
    /\ pc \in Idle
    /\ IF config_file.status = "ok"
       THEN /\ config' = config_file.content
            /\ last_reload' = "ok"
            /\ edited' = FALSE
            /\ raised' = "none"
            /\ pc' = "reloaded"
       ELSE /\ config' = config
            /\ last_reload' = _load_config_error(config_file.status)
            /\ edited' = edited
            /\ raised' = _load_config_error(config_file.status)
            /\ pc' = "raised"
    /\ UNCHANGED << query_type, query, ANTHROPIC_AVAILABLE, ANTHROPIC_API_KEY,
                    entry, call_no, first, thread, parked, response,
                    config_file, langchain, keyword_matches, available_tools,
                    llm_attempts, llm_calls, llm_outcome, llm_suggestion,
                    result >>

\* the next call of respond
RespondCall ==
    /\ pc \in Idle
    /\ query' \in AgentQueries
    /\ pc' = "respond"
    /\ response' = "none"
    /\ keyword_matches' = <<>>
    /\ available_tools' = <<>>
    /\ llm_attempts' = 0
    /\ llm_calls' = 0
    /\ llm_outcome' = NotCalled
    /\ llm_suggestion' = "None"
    /\ result' = "none"
    /\ raised' = "none"
    /\ UNCHANGED << query_type, config, ANTHROPIC_AVAILABLE, ANTHROPIC_API_KEY,
                    entry, call_no, first, thread, parked, files, langchain >>

\* the agent after __init__ (agent.py 59-60): the file was valid and config
\* is what it held
InitReload ==
    /\ query_type = "str"
    /\ query = <<"d">>
    /\ config \in FileConfigs
    /\ ANTHROPIC_AVAILABLE = TRUE
    /\ ANTHROPIC_API_KEY = TRUE
    /\ pc = "idle"
    /\ entry = "respond"
    /\ FreshCall
    /\ SingleCall

NextReload ==
    \/ EditFile
    \/ ReloadConfig
    \/ RespondCall
    \/ RespondValidate
    \/ Next
    \/ RespondDispatch

SpecReload == InitReload /\ [][NextReload]_vars

(***************************************************************************)
(* The handlers called by respond or by themselves, as test_handlers.py    *)
(* calls them: with any query on any configuration.                        *)
(***************************************************************************)
\* the tool handlers, each with its tool and what answers for the tool
ToolHandlers ==
    { [name |-> "handle_document", tool |-> "document_retriever",
       stub |-> "stub_document_retrieval"],
      [name |-> "handle_database", tool |-> "database_query",
       stub |-> "stub_database_query"],
      [name |-> "handle_web", tool |-> "web_search",
       stub |-> "stub_web_search"] }

\* handle_document, handle_database, handle_web: the checks of the query,
\* then the tool when it is enabled and handle_direct when it is not
CallHandler ==
    /\ pc = "handler"
    /\ \E h \in ToolHandlers :
          /\ entry = h.name
          /\ IF query_type # "str" \/ query = <<>> \/ Strip(query) = <<>>
             THEN /\ raised' = "ValueError"
                  /\ response' = response
                  /\ pc' = "raised"
             ELSE /\ raised' = raised
                  /\ response' = _handle_tool(h.tool, h.stub)
                  /\ pc' = "responded"
    /\ UNCHANGED << inputs, files, langchain, entry, call_no, first, thread, parked,
                    keyword_matches, available_tools, llm_attempts, llm_calls,
                    llm_outcome, llm_suggestion, result >>

InitHandlers ==
    /\ query_type = "str"
    /\ query \in CaseQueries
    /\ config \in Configs
    /\ ANTHROPIC_AVAILABLE = TRUE
    /\ ANTHROPIC_API_KEY = TRUE
    /\ \/ entry = "respond" /\ pc = "respond"
       \/ entry \in {h.name : h \in ToolHandlers} /\ pc = "handler"
    /\ FreshCall
    /\ SingleCall

NextHandlers ==
    \/ CallHandler
    \/ NextAgent

SpecHandlers == InitHandlers /\ [][NextHandlers]_vars

(***************************************************************************)
(* decide_tool on queries of one to MaxPad + 1 words whose first word      *)
(* holds no, one or two keyword letters or the harmful letter.             *)
(***************************************************************************)
\* the first words: nothing, one character, two keyword letters
FirstWords ==
    {<<>>} \cup {<<c>> : c \in HeadChars}
        \cup { <<"d", "w">>, <<"d", "b">>, <<"b", "w">> }

\* a first word followed by up to MaxPad filler words, which are separated
\* by spaces or by tabs
WordyQueries ==
    {head \o Filler(k, sep) :
        head \in FirstWords, k \in 0..MaxPad, sep \in {" ", "\t"}} \ {<<>>}

InitWordy ==
    /\ query_type = "str"
    /\ query \in WordyQueries
    /\ config \in Configs
    /\ ANTHROPIC_AVAILABLE = TRUE
    /\ ANTHROPIC_API_KEY \in BOOLEAN
    /\ pc = "start"
    /\ entry = "decide_tool"
    /\ FreshCall
    /\ SingleCall

SpecWordy == InitWordy /\ [][Next]_vars

(***************************************************************************)
(* LangChainSupervisorAgent (supervisor/langchain_agent.py): constructed   *)
(* with a path, it holds the configuration loaded from there and the tool  *)
(* list made from it; the files are written from outside, reload_config    *)
(* loads again.                                                            *)
(***************************************************************************)
\* the paths: the default of the constructor and another one
Paths == {"config.json", "other.json"}

\* create_supervisor_tools, lines 56-93: direct_llm, then each enabled tool
create_supervisor_tools(c) ==
    <<"direct_llm">>
        \o (IF is_tool_enabled(c, "document_retriever")
            THEN <<"document_retriever">> ELSE <<>>)
        \o (IF is_tool_enabled(c, "database_query")
            THEN <<"database_query">> ELSE <<>>)
        \o (IF is_tool_enabled(c, "web_search")
            THEN <<"web_search">> ELSE <<>>)

\* the configurations the files may hold: every tool listed, enabled or not
DiskConfigs ==
    {c \in ConcurrentConfigs : c.routing_rules.enable_llm_fallback}

\* what load_config may find at a path
DiskStates ==
    {[status |-> "ok", content |-> c] : c \in DiskConfigs}
        \cup {[status |-> "missing"], [status |-> "invalid"]}

\* hasattr(self.config, 'config_path'): Config.__init__ (config.py 29-35)
\* sets system_prompt, tools, routing_rules, fallback_message, _raw_config
\* and nothing assigns config_path to a Config
_config_has_config_path == FALSE

\* somebody writes, replaces or removes one of the files
LangChainEditFile ==
    /\ pc \in Idle
    /\ \E path \in Paths :
          /\ disk' \in {[disk EXCEPT ![path] = f] : f \in DiskStates \ {disk[path]}}
          /\ edited' = IF path = config_path THEN TRUE ELSE edited
    /\ UNCHANGED << inputs, entry, call_no, first, thread, parked, response,
                    config_file, last_reload, config_path, tools, pc,
                    keyword_matches, available_tools, llm_attempts, llm_calls,
                    llm_outcome, llm_suggestion, result, raised >>

\* reload_config, lines 241-242
LangChainReloadConfig ==
    /\ pc \in Idle
    /\ LET path == IF _config_has_config_path THEN config_path ELSE "config.json"
       IN  IF disk[path].status = "ok"
           THEN /\ config' = disk[path].content
                /\ tools' = create_supervisor_tools(disk[path].content)
                /\ last_reload' = "ok"
                /\ edited' = FALSE
                /\ raised' = "none"
                /\ pc' = "reloaded"
           ELSE /\ config' = config
                /\ tools' = tools
                /\ last_reload' = _load_config_error(disk[path].status)
                /\ edited' = edited
                /\ raised' = _load_config_error(disk[path].status)
                /\ pc' = "raised"
    /\ UNCHANGED << query_type, query, ANTHROPIC_AVAILABLE, ANTHROPIC_API_KEY,
                    entry, call_no, first, thread, parked, response,
                    config_file, config_path, disk, keyword_matches,
                    available_tools, llm_attempts, llm_calls, llm_outcome,
                    llm_suggestion, result >>

\* the agent after __init__ (lines 136-158): the file at config_path was
\* valid, config is what it held and tools is made from it
InitLangChain ==
    /\ query_type = "str"
    /\ query = <<"d">>
    /\ config_path \in Paths
    /\ disk \in [Paths -> DiskStates]
    /\ disk[config_path].status = "ok"
    /\ config = disk[config_path].content
    /\ tools = create_supervisor_tools(config)
    /\ ANTHROPIC_AVAILABLE = TRUE
    /\ ANTHROPIC_API_KEY = TRUE
    /\ pc = "idle"
    /\ entry = "reload_config"
    /\ FreshCall
    /\ call_no = 1
    /\ first = NoFirst
    /\ thread = "A"
    /\ parked = NoThread
    /\ response = "none"
    /\ config_file = disk[config_path]
    /\ last_reload = "none"
    /\ edited = FALSE

NextLangChain ==
    \/ LangChainEditFile
    \/ LangChainReloadConfig

SpecLangChain == InitLangChain /\ [][NextLangChain]_vars

(***************************************************************************)
(* Vocabulary of the properties.  These definitions restate, position by   *)
(* position, what the specification calls a valid query, an enabled tool,  *)
(* a harmful token and a keyword occurrence; they use neither Contains nor *)
(* the classifier's operators.                                             *)
(***************************************************************************)
Categories == {"direct", "doc", "db", "web", "fallback"}
ToolCategories == <<"doc", "db", "web">>

\* the query is a string with at least one non-whitespace character
ValidQuery ==
    /\ query_type = "str"
    /\ \E i \in 1..Len(query) : query[i] \notin Whitespace

\* the tool behind a category and the keyword list of a category
ToolOf(category) ==
    CASE category = "doc" -> "document_retriever"
      [] category = "db"  -> "database_query"
      [] category = "web" -> "web_search"
KeywordsOf(category) ==
    LET key == CASE category = "doc" -> "document_keywords"
                 [] category = "db"  -> "database_keywords"
                 [] category = "web" -> "web_keywords"
    IN  IF key \in DOMAIN config.routing_rules
        THEN config.routing_rules[key] ELSE <<>>
HarmfulPatterns ==
    IF "harmful_patterns" \in DOMAIN config.routing_rules
    THEN config.routing_rules["harmful_patterns"] ELSE <<>>

\* the category's tool is in the tools mapping and its flag is set
ToolOn(category) ==
    /\ ToolOf(category) \in DOMAIN config.tools
    /\ config.tools[ToolOf(category)].enabled

\* word occurs in text at position i, letter case ignored
OccursAt(word, text, i) ==
    /\ i + Len(word) - 1 <= Len(text)
    /\ \A j \in 1..Len(word) : LowerChar(text[i + j - 1]) = LowerChar(word[j])

\* some keyword of the category occurs somewhere in the query
KeywordOccurs(category) ==
    \E k \in 1..Len(KeywordsOf(category)) : \E i \in 1..Len(query) :
        OccursAt(KeywordsOf(category)[k], query, i)

\* some harmful pattern occurs in the query as a token of its own: with a
\* space or the start of the query before it, and a space or the end after
HarmfulToken ==
    \E k \in 1..Len(HarmfulPatterns) : \E i \in 1..Len(query) :
        LET n == Len(HarmfulPatterns[k])
        IN  /\ OccursAt(HarmfulPatterns[k], query, i)
            /\ (i = 1 \/ query[i - 1] = " ")
            /\ (i + n - 1 = Len(query) \/ query[i + n] = " ")

\* some harmful pattern occurs in the query as a word of its own: with
\* whitespace (space, tab, newline) or the start of the query before it, and
\* whitespace or the end of the query after it
HarmfulWord ==
    \E k \in 1..Len(HarmfulPatterns) : \E i \in 1..Len(query) :
        LET n == Len(HarmfulPatterns[k])
        IN  /\ OccursAt(HarmfulPatterns[k], query, i)
            /\ (i = 1 \/ query[i - 1] \in {" ", "\t", "\n"})
            /\ (i + n - 1 = Len(query) \/ query[i + n] \in {" ", "\t", "\n"})

\* the categories with a keyword in the query, and those of them whose tool is on
MatchedCategories == {c \in {"doc", "db", "web"} : KeywordOccurs(c)}
EnabledMatches == {c \in MatchedCategories : ToolOn(c)}

\* the first category, in the order doc, db, web, with a keyword in the query
\* and its tool on ("none" when there is none)
FirstEnabledMatch ==
    IF "doc" \in EnabledMatches THEN "doc"
    ELSE IF "db" \in EnabledMatches THEN "db"
    ELSE IF "web" \in EnabledMatches THEN "web"
    ELSE "none"

\* enable_llm_fallback is present and true, the SDK is there, the key is set
LlmUsable ==
    /\ "enable_llm_fallback" \in DOMAIN config.routing_rules
    /\ config.routing_rules["enable_llm_fallback"]
    /\ ANTHROPIC_AVAILABLE
    /\ ANTHROPIC_API_KEY

Returned == pc = "done"

\* the positions of a running call: each is the guard of one action of Next,
\* which is enabled there whatever the other variables hold
Positions ==
    {"start", "harmful", "document", "database", "web", "ambiguity",
     "llm_route_query", "call_llm", "suggestion"}

(***************************************************************************)
(* C1.  For every valid query, every configuration and every behaviour of  *)
(* the collaborator, the call goes on until it returns, it never raises,   *)
(* and what it returns is one of direct, doc, db, web, fallback.           *)
(***************************************************************************)
C1_ReturnsACategory ==
    ValidQuery =>
        /\ pc # "raised" /\ raised = "none"
        /\ (~ Returned => pc \in Positions)
        /\ (Returned => result \in Categories)

\* a call whose collaborator timed out has returned
C1_Witness ==
    /\ Returned /\ ValidQuery
    /\ llm_outcome.kind = "APITimeoutError"
    /\ result \in Categories

(***************************************************************************)
(* C2.  A query with a harmful pattern as a token of its own returns       *)
(* fallback: no keyword check is reached, whatever keywords the query      *)
(* holds and whatever the tool flags are, and the collaborator is not      *)
(* called.                                                                 *)
(***************************************************************************)
C2_HarmfulFirst ==
    (ValidQuery /\ HarmfulToken) =>
        /\ pc \in {"start", "harmful", "done"}
        /\ keyword_matches = <<>>
        /\ llm_attempts = 0 /\ llm_calls = 0
        /\ (Returned => result = "fallback")

\* a harmful token in a query that also holds keywords, the tool of every
\* matched category enabled
C2_Witness ==
    /\ Returned /\ ValidQuery /\ HarmfulToken
    /\ MatchedCategories # {} /\ EnabledMatches = MatchedCategories
    /\ result = "fallback"

(***************************************************************************)
(* C3.  A returned doc, db or web has its backing tool in the tools        *)
(* mapping with the flag set, on the keyword path and on the suggestion    *)
(* path alike.                                                             *)
(***************************************************************************)
C3_ReturnedToolIsEnabled ==
    (Returned /\ result \in {"doc", "db", "web"}) => ToolOn(result)

\* the classifier suggested web, web_search is not in the mapping
C3_Witness ==
    /\ Returned /\ llm_calls = 1 /\ llm_suggestion = "web"
    /\ "web_search" \notin DOMAIN config.tools
    /\ result = "direct"

(***************************************************************************)
(* C4.  Without a harmful token, when some category has a keyword in the   *)
(* query and its tool enabled, the first such category in the order doc,   *)
(* db, web is returned, and the secondary classifier is not invoked.       *)
(***************************************************************************)
C4_FirstEnabledMatchWins ==
    (Returned /\ ValidQuery /\ ~ HarmfulToken /\ FirstEnabledMatch # "none") =>
        /\ result = FirstEnabledMatch
        /\ llm_attempts = 0 /\ llm_calls = 0

\* a document keyword with the document tool off, a web keyword with the web
\* tool on, the classifier usable: web is returned
C4_Witness ==
    /\ Returned /\ ValidQuery /\ LlmUsable
    /\ MatchedCategories = {"doc", "web"} /\ EnabledMatches = {"web"}
    /\ result = "web" /\ llm_attempts = 0

(***************************************************************************)
(* C5, as stated.  A query with keywords of two or more categories is      *)
(* handed to the secondary classifier, and returns direct when the         *)
(* classifier is disabled or unavailable.                                  *)
(***************************************************************************)
C5_AsStated ==
    (Returned /\ ValidQuery /\ ~ HarmfulToken
        /\ Cardinality(MatchedCategories) >= 2) =>
            /\ llm_attempts = 1
            /\ (~ LlmUsable => result = "direct")

(***************************************************************************)
(* C5, amended.  A query without a harmful token, with keywords of two or  *)
(* more categories none of which has its tool enabled, is ambiguous: the   *)
(* secondary classifier is attempted, the collaborator is called exactly   *)
(* when the classifier is enabled and available, and otherwise the result  *)
(* is direct.                                                              *)
(***************************************************************************)
C5_Amended ==
    (Returned /\ ValidQuery /\ ~ HarmfulToken
        /\ Cardinality(MatchedCategories) >= 2 /\ EnabledMatches = {}) =>
            /\ Len(keyword_matches) = Cardinality(MatchedCategories)
            /\ llm_attempts = 1
            /\ llm_calls = (IF LlmUsable THEN 1 ELSE 0)
            /\ (~ LlmUsable => result = "direct")

\* two matched categories with their tools off, and the classifier's answer,
\* the third category, returned
C5_Witness ==
    /\ Returned /\ ValidQuery
    /\ MatchedCategories = {"doc", "db"} /\ EnabledMatches = {}
    /\ llm_calls = 1 /\ result = "web"

(***************************************************************************)
(* C6.  Without a harmful token, a category whose keyword is in the query  *)
(* but whose tool is disabled is never returned; when it is the only       *)
(* category with a keyword in the query the result is direct.              *)
(***************************************************************************)
C6_DisabledMatchSkipped ==
    (Returned /\ ValidQuery /\ ~ HarmfulToken) =>
        /\ \A c \in MatchedCategories : ~ ToolOn(c) => result # c
        /\ (Cardinality(MatchedCategories) = 1 /\ EnabledMatches = {}
                => result = "direct")

\* "According to the document" with document_retriever disabled and the
\* other tools enabled: four words, a document keyword only
C6_Witness ==
    /\ Returned /\ ValidQuery /\ LlmUsable
    /\ query = <<"d", " ", "x", " ", "x", " ", "x">>
    /\ ~ ToolOn("doc") /\ ToolOn("db") /\ ToolOn("web")
    /\ result = "direct"

(***************************************************************************)
(* C7.  When the collaborator times out, fails, answers with no content or *)
(* with a text that is no category token, llm_route_query returns None,    *)
(* decide_tool raises nothing and returns direct.                          *)
(***************************************************************************)
FailedOutcomes ==
    {[kind |-> k, text |-> <<>>] :
        k \in {"empty_content", "APITimeoutError", "APIConnectionError",
               "APIError", "Exception"}}
    \cup {[kind |-> "text", text |-> t] :
            t \in { <<>>, <<" ">>, <<"d", "o", "c", "s">>,
                    <<"d", "b", " ", "w", "e", "b">>,
                    <<"f", "a", "l", "l", "b", "a", "c", "k">> }}

C7_FailureAbsorbed ==
    (llm_outcome \in FailedOutcomes) =>
        /\ pc \in {"suggestion", "done"}
        /\ raised = "none"
        /\ llm_suggestion = "None"
        /\ (Returned => result = "direct")

\* the connection to the collaborator failed and the call returned direct
C7_Witness ==
    /\ Returned /\ llm_outcome.kind = "APIConnectionError"
    /\ raised = "none" /\ result = "direct"

(***************************************************************************)
(* C8.  The collaborator is called only with enable_llm_fallback present   *)
(* and true, the SDK available and the API key set.  Otherwise the         *)
(* classifier returns None without a call, and the result is direct, as it *)
(* is when the collaborator is called and gives no suggestion.             *)
(***************************************************************************)
C8_CallOnlyWhenUsable ==
    /\ (llm_calls > 0 => LlmUsable)
    /\ (pc \in {"suggestion", "done"} /\ llm_attempts = 1 /\ ~ LlmUsable) =>
            /\ llm_calls = 0 /\ llm_suggestion = "None"
            /\ (Returned => result = "direct")
    /\ (Returned /\ llm_calls = 1 /\ llm_suggestion = "None") => result = "direct"

\* the flag is missing, the SDK and the key are there: no call, direct
C8_Witness ==
    /\ Returned /\ llm_attempts = 1
    /\ "enable_llm_fallback" \notin DOMAIN config.routing_rules
    /\ ANTHROPIC_AVAILABLE /\ ANTHROPIC_API_KEY
    /\ llm_calls = 0 /\ result = "direct"

(***************************************************************************)
(* C9, as stated.  The classifier returns only tokens that were offered in *)
(* the prompt: direct and the categories whose tool is enabled.            *)
(***************************************************************************)
C9_AsStated ==
    (pc \in {"suggestion", "done"} /\ llm_calls = 1 /\ llm_suggestion # "None") =>
        \E i \in 1..Len(available_tools) : available_tools[i] = llm_suggestion

\* the answers that are a category token once trimmed and lower-cased
AcceptedToken(text) ==
    CASE text \in {<<"d", "o", "c">>, <<" ", "D", "o", "c", "\n">>} -> "doc"
      [] text = <<"d", "b">> -> "db"
      [] text \in {<<"w", "e", "b">>, <<"W", "E", "B">>} -> "web"
      [] text = <<"d", "i", "r", "e", "c", "t">> -> "direct"
      [] OTHER -> "None"

(***************************************************************************)
(* C9, amended.  The classifier accepts the answer exactly if, trimmed and *)
(* lower-cased, it is one of direct, doc, db, web, offered or not; every   *)
(* other answer gives None.  The token of a category whose tool is         *)
(* disabled is returned by the classifier and dropped by decide_tool,      *)
(* which returns direct.                                                   *)
(***************************************************************************)
C9_Amended ==
    (pc \in {"suggestion", "done"} /\ llm_calls = 1) =>
        /\ llm_suggestion =
              (IF llm_outcome.kind = "text"
               THEN AcceptedToken(llm_outcome.text) ELSE "None")
        /\ (Returned /\ llm_suggestion \in {"doc", "db", "web"}
                /\ ~ ToolOn(llm_suggestion) => result = "direct")

\* the answer " Doc\n" with the document tool off: the classifier returns
\* doc, which was not offered, and decide_tool returns direct
C9_Witness ==
    /\ Returned /\ llm_outcome.text = <<" ", "D", "o", "c", "\n">>
    /\ ~ ToolOn("doc")
    /\ available_tools # <<>>
    /\ \A i \in 1..Len(available_tools) : available_tools[i] # "doc"
    /\ llm_suggestion = "doc" /\ result = "direct"

(***************************************************************************)
(* C10.  When the secondary classifier was attempted, the result is its    *)
(* suggestion if that is direct or a category whose tool is enabled, and   *)
(* direct in every other case.                                             *)
(***************************************************************************)
C10_SuggestionGated ==
    (Returned /\ llm_attempts = 1) =>
        result = (IF llm_suggestion = "direct" THEN "direct"
                  ELSE IF llm_suggestion \in {"doc", "db", "web"}
                          /\ ToolOn(llm_suggestion)
                  THEN llm_suggestion
                  ELSE "direct")

\* the classifier suggested db, its tool is on, db is returned
C10_Witness ==
    /\ Returned /\ llm_attempts = 1 /\ llm_suggestion = "db"
    /\ ToolOn("db") /\ result = "db"

(***************************************************************************)
(* C11.  A query that is not a string, is empty or is all whitespace makes *)
(* decide_tool raise an input error (TypeError or ValueError) before the   *)
(* harmful check, any keyword check and any classifier attempt; nothing    *)
(* else ever makes decide_tool raise; and respond raises ValueError for    *)
(* such a query before it calls decide_tool or a handler.                  *)
(***************************************************************************)
Untouched ==
    /\ keyword_matches = <<>>
    /\ llm_attempts = 0
    /\ llm_calls = 0
    /\ result = "none"
    /\ response = "none"

C12_ConfigNeverWritten == [][config' = config]_vars

\* a call through the secondary classifier has returned on a configuration
\* without enable_llm_fallback, and the key is still not there
C12_Witness ==
    /\ Returned
    /\ llm_attempts = 1
    /\ "enable_llm_fallback" \notin DOMAIN config.routing_rules

(***************************************************************************)
(* C13.  One decide_tool call attempts the secondary classifier at most    *)
(* once and sends the collaborator at most one request; once the           *)
(* collaborator has answered or failed, the call only goes on to its       *)
(* return: nothing is retried.                                             *)
(***************************************************************************)
C13_AtMostOneCall ==
    /\ llm_attempts <= 1
    /\ llm_calls <= 1
    /\ llm_calls = 1 <=> llm_outcome # NotCalled
    /\ llm_outcome # NotCalled => pc \in {"suggestion", "done"}

\* the collaborator has failed and the call has returned after that one request
C13_Witness ==
    /\ Returned
    /\ llm_outcome.kind \in LlmFailures
    /\ llm_calls = 1

(***************************************************************************)
(* C14.  A later call with the caller's first query, on the unchanged      *)
(* configuration and with other calls in between or not, ends as the first *)
(* call did (the same category, or the same error) whenever the            *)
(* collaborator, where both calls asked it, answered both the same way.    *)
(***************************************************************************)
SameAnswer ==
    \/ llm_outcome = first.outcome
    \/ llm_outcome = NotCalled
    \/ first.outcome = NotCalled

C14_RepeatedCallSameResult ==
    /\ call_no > 1
    /\ pc \in {"done", "raised"}
    /\ query = first.query
    /\ SameAnswer
    => /\ result = first.result
       /\ raised = first.raised

\* a third call, with the first query again after another query, has
\* returned a tool category that the collaborator suggested
C14_Witness ==
    /\ call_no = 3
    /\ Returned
    /\ query = first.query
    /\ query \notin OtherQueries
    /\ llm_calls = 1
    /\ llm_outcome = first.outcome
    /\ result \in {"doc", "db", "web"}

(***************************************************************************)
(* C15.  With two decide_tool calls on one configuration interleaved step  *)
(* by step in any way, a call that has ended has ended as it does when it  *)
(* is the only call: with the error of an invalid query, or with the       *)
(* category that its own query, the configuration and its own answer from  *)
(* the collaborator determine, having asked the collaborator exactly when  *)
(* a call on its own does.                                                 *)
(***************************************************************************)
\* whether a call on its own asks the collaborator
AsksAlone ==
    /\ ValidQuery
    /\ ~ HarmfulToken
    /\ FirstEnabledMatch = "none"
    /\ Cardinality(MatchedCategories) # 1
    /\ LlmUsable

\* what a call on its own returns, given what the collaborator answered it
ReturnsAlone ==
    IF HarmfulToken THEN "fallback"
    ELSE IF FirstEnabledMatch # "none" THEN FirstEnabledMatch
    ELSE IF /\ AsksAlone
            /\ llm_outcome.kind = "text"
            /\ AcceptedToken(llm_outcome.text) \in {"doc", "db", "web"}
            /\ ToolOn(AcceptedToken(llm_outcome.text))
         THEN AcceptedToken(llm_outcome.text)
    ELSE "direct"

C15_InterleavingChangesNothing ==
    /\ pc = "raised" => ~ ValidQuery /\ raised \in {"TypeError", "ValueError"}
    /\ pc = "done" =>
          /\ ValidQuery
          /\ llm_calls = (IF AsksAlone THEN 1 ELSE 0)
          /\ result = ReturnsAlone

\* thread A has returned a category the collaborator suggested, after
\* thread B, which asked the collaborator too, has returned another
C15_Witness ==
    /\ thread = "A"
    /\ pc = "done"
    /\ llm_calls = 1
    /\ result \in {"doc", "db", "web"}
    /\ parked.pc = "done"
    /\ parked.llm_calls = 1
    /\ parked.result # result
    /\ parked.query # query

(***************************************************************************)
(* C16.  A call whose query has the letters of the first call's query in   *)
(* another case, on a configuration whose keywords and patterns have the   *)
(* letters of the first call's in another case, ends as the first call did *)
(* whenever the collaborator, where both calls asked it, answered both the *)
(* same way.                                                               *)
(***************************************************************************)
SameLetters(a, b) ==
    /\ Len(a) = Len(b)
    /\ \A i \in 1..Len(a) : LowerChar(a[i]) = LowerChar(b[i])

C16_CaseInsensitive ==
    /\ call_no = 2
    /\ pc \in {"done", "raised"}
    /\ SameLetters(query, first.query)
    /\ SameAnswer
    => /\ result = first.result
       /\ raised = first.raised

\* the second call, with the first query in upper case and the keywords in
\* lower case, has returned the database category as the first call did
C16_Witness ==
    /\ call_no = 2
    /\ Returned
    /\ query # first.query
    /\ SameLetters(query, first.query)
    /\ config.routing_rules.database_keywords = << <<"b">> >>
    /\ result = "db"
    /\ first.result = "db"

(***************************************************************************)
(* C17.  A valid query without a harmful token, with no keyword of any     *)
(* category in it and with five or more words, returns direct and the      *)
(* secondary classifier is never attempted for it, whatever                *)
(* enable_llm_fallback and the collaborator are.                           *)
(***************************************************************************)
\* the words of the query, each named by the position of its last character:
\* a character other than space, tab and newline with such a one, or nothing,
\* after it
Words ==
    {i \in 1..Len(query) :
        /\ query[i] \notin {" ", "\t", "\n"}
        /\ (i = Len(query) \/ query[i + 1] \in {" ", "\t", "\n"})}

C17_AsStated ==
    /\ ValidQuery
    /\ ~ HarmfulWord
    /\ MatchedCategories = {}
    /\ Cardinality(Words) >= 5
    => /\ llm_attempts = 0
       /\ llm_calls = 0
       /\ Returned => result = "direct"

C19_AsStated ==
    ValidQuery /\ HarmfulWord =>
        /\ pc \in {"start", "harmful", "done"}
        /\ Returned => result = "fallback"
        /\ keyword_matches = <<>>
        /\ llm_attempts = 0

(***************************************************************************)
(* C20.  A harmful pattern that occurs in the query only inside larger     *)
(* words never makes the call return fallback, while a keyword counts as a *)
(* match of its category wherever its letters occur, inside a larger word  *)
(* too: in a call that returned another category than fallback, the        *)
(* matched categories are exactly those whose check was run and one of     *)
(* whose keywords has its letters somewhere in the query.                  *)
(***************************************************************************)
\* the check of the category is run: no category before it ended the call
CheckRun(category) ==
    CASE category = "doc" -> TRUE
      [] category = "db"  -> "doc" \notin EnabledMatches
      [] category = "web" -> EnabledMatches \cap {"doc", "db"} = {}

C20_TokensAndSubstrings ==
    /\ ValidQuery /\ ~ HarmfulWord => result # "fallback"
    /\ Returned /\ result # "fallback" =>
          \A c \in {"doc", "db", "web"} :
              (\E n \in 1..Len(keyword_matches) : keyword_matches[n] = c)
                  <=> (KeywordOccurs(c) /\ CheckRun(c))

\* a call has returned doc for a query that is one word of several letters,
\* with a harmful pattern and a document keyword both inside it
C20_Witness ==
    /\ Returned
    /\ Len(query) > 1
    /\ \A i \in 1..Len(query) : query[i] \notin {" ", "\t", "\n"}
    /\ \E k \in 1..Len(HarmfulPatterns) : \E i \in 1..Len(query) :
          OccursAt(HarmfulPatterns[k], query, i)
    /\ KeywordOccurs("doc")
    /\ result = "doc"

(***************************************************************************)
(* C21.  On a configuration that lacks keyword lists, the harmful-pattern  *)
(* list or tool entries, a call on a valid query never raises and goes on  *)
(* until it returns one of the five categories; a category whose keyword   *)
(* list is missing is never matched, a missing harmful-pattern list never  *)
(* gives fallback, a category whose tool is missing is never returned, and *)
(* with no list and no usable classifier the call returns direct.          *)
(***************************************************************************)
ListMissing(key) == key \notin DOMAIN config.routing_rules

C21_MissingConfigTolerated ==
    ValidQuery =>
        /\ raised = "none"
        /\ pc \in Positions \cup {"done"}
        /\ Returned => result \in {"direct", "doc", "db", "web", "fallback"}
        /\ ListMissing("harmful_patterns") => result # "fallback"
        /\ \A n \in 1..Len(keyword_matches) :
              /\ keyword_matches[n] = "doc" => ~ ListMissing("document_keywords")
              /\ keyword_matches[n] = "db"  => ~ ListMissing("database_keywords")
              /\ keyword_matches[n] = "web" => ~ ListMissing("web_keywords")
        /\ "document_retriever" \notin DOMAIN config.tools => result # "doc"
        /\ "database_query" \notin DOMAIN config.tools => result # "db"
        /\ "web_search" \notin DOMAIN config.tools => result # "web"
        /\ (Returned /\ (\A key \in {"document_keywords", "database_keywords",
                                     "web_keywords", "harmful_patterns"} :
                            ListMissing(key))
                     /\ ListMissing("enable_llm_fallback")) => result = "direct"

\* a call on a configuration with no list at all and no tool entry has
\* returned direct for a query holding the harmful and the document letter
C21_Witness ==
    /\ Returned
    /\ DOMAIN config.routing_rules = {}
    /\ DOMAIN config.tools = {}
    /\ query = <<"h", "d">>
    /\ result = "direct"

(***************************************************************************)
(* C22.  On the configuration of the scenarios, with every tool enabled,   *)
(* a call returns direct for "What is the capital of France?", doc for     *)
(* "According to the design document, what is X?", db for "How many        *)
(* accounts were created?", web for "Latest news about AI" and fallback    *)
(* for "DELETE all records".                                               *)
(***************************************************************************)
C22_AsStated ==
    Returned =>
        result = CASE query = ScenarioDirect   -> "direct"
                   [] query = ScenarioDocument -> "doc"
                   [] query = ScenarioDatabase -> "db"
                   [] query = ScenarioWeb      -> "web"
                   [] query = ScenarioHarmful  -> "fallback"

\* the four scenarios with a keyword or a harmful pattern in the query end
\* as the scenarios say, whatever the secondary classifier is
C22_KeywordScenarios ==
    Returned /\ query # ScenarioDirect => C22_AsStated

\* the scenario without a keyword ends as the scenarios say when the
\* secondary classifier is off or cannot be reached
C22_DirectScenarioClassifierOff ==
    Returned /\ query = ScenarioDirect /\ ~ LlmUsable => result = "direct"

(***************************************************************************)
(* C23.  respond answers with the handler of the category decide_tool      *)
(* returned: the language model for direct, the document, database or web  *)
(* tool for doc, db or web, the configured fallback message for fallback.  *)
(* For a query with a harmful token the answer is the fallback message,    *)
(* and neither the language model (as classifier or as direct handler) nor *)
(* a tool is called.                                                       *)
(***************************************************************************)
\* what answers a category: the tool's stub, the language model, the message
AnswerOf(category) ==
    CASE category = "direct"   -> "handle_direct"
      [] category = "doc"      -> "stub_document_retrieval"
      [] category = "db"       -> "stub_database_query"
      [] category = "web"      -> "stub_web_search"
      [] category = "fallback" -> "fallback_message"

C23_DispatchAndRefusal ==
    /\ response # "none" =>
          /\ entry = "respond"
          /\ pc = "responded"
          /\ response = AnswerOf(result)
    /\ ValidQuery /\ HarmfulToken =>
          /\ response \in {"none", "fallback_message"}
          /\ pc = "responded" => response = "fallback_message"
          /\ llm_attempts = 0
          /\ llm_calls = 0

\* respond has answered a query with a harmful token and a document keyword
\* with the fallback message, the document tool being enabled
C23_Witness ==
    /\ pc = "responded"
    /\ HarmfulToken
    /\ KeywordOccurs("doc")
    /\ ToolOn("doc")
    /\ response = "fallback_message"

(***************************************************************************)
(* C24.  After a reload_config that succeeded, and until the file is       *)
(* written again, the agent's configuration is what the file holds, and    *)
(* every respond call answers as routing with the agent's configuration    *)
(* determines: with the tool flags and the routing rules of the file, not  *)
(* with those loaded before.                                               *)
(***************************************************************************)
C24_ReloadTakesEffect ==
    /\ last_reload = "ok" /\ ~ edited =>
          /\ config_file.status = "ok"
          /\ config = config_file.content
    /\ pc = "responded" => response = AnswerOf(ReturnsAlone)

\* after a reload of a file that disables the document tool, respond has
\* answered a document query with the language model
C24_Witness ==
    /\ last_reload = "ok"
    /\ ~ edited
    /\ pc = "responded"
    /\ KeywordOccurs("doc")
    /\ ~ ToolOn("doc")
    /\ llm_calls = 0
    /\ response = "handle_direct"

(***************************************************************************)
(* C29.  A reload_config that finds no file, a file that is not JSON or a  *)
(* file that fails validation raises that error to the caller and leaves   *)
(* the agent's configuration as it was; the configuration changes in no    *)
(* step but a reload that succeeded, so the respond calls after a failed   *)
(* reload route with the configuration from before it.                     *)
(***************************************************************************)
\* the step is a reload_config that raised: the agent was not inside a
\* call, it is left with an exception, and the file was not written
ReloadRaises ==
    /\ pc \in Idle
    /\ pc' = "raised"
    /\ config_file' = config_file

C29_FailedReloadKeepsConfig ==
    [][ /\ ReloadRaises =>
              /\ config_file.status # "ok"
              /\ raised' = _load_config_error(config_file.status)
              /\ raised' \in {"FileNotFoundError", "ValueError", "AttributeError"}
              /\ config' = config
        /\ config' # config =>
              /\ pc \in Idle
              /\ pc' = "reloaded"
              /\ config_file.status = "ok" ]_vars

\* after a reload that found no file, respond has answered a document query
\* with the document tool, which the configuration from before enables
C29_Witness ==
    /\ last_reload = "FileNotFoundError"
    /\ config_file.status = "missing"
    /\ pc = "responded"
    /\ KeywordOccurs("doc")
    /\ response = "stub_document_retrieval"

(***************************************************************************)
(* C25.  A tool is never called while it is disabled: a document, database *)
(* or web handler called on a configuration in which its tool is disabled  *)
(* or absent answers with the direct handler, and calls its tool when it   *)
(* is enabled; and respond answers a valid query that has a document       *)
(* keyword, no other keyword and no harmful token with the direct handler  *)
(* when the document tool is disabled.                                     *)
(***************************************************************************)
\* the category a handler serves
CategoryOf(name) ==
    CASE name = "handle_document" -> "doc"
      [] name = "handle_database" -> "db"
      [] name = "handle_web"      -> "web"

C25_DisabledToolNotCalled ==
    /\ \A c \in {"doc", "db", "web"} :
          response = AnswerOf(c) => ToolOn(c)
    /\ entry \in {"handle_document", "handle_database", "handle_web"}
       /\ pc = "responded" =>
          response = IF ToolOn(CategoryOf(entry))
                     THEN AnswerOf(CategoryOf(entry)) ELSE "handle_direct"
    /\ entry = "respond" /\ pc = "responded" /\ ~ HarmfulToken
       /\ MatchedCategories = {"doc"} /\ ~ ToolOn("doc") =>
          response = "handle_direct"

\* the document handler, called on a configuration whose document tool is
\* disabled, has answered with the direct handler
C25_Witness ==
    /\ entry = "handle_document"
    /\ pc = "responded"
    /\ "document_retriever" \in DOMAIN config.tools
    /\ ~ config.tools["document_retriever"].enabled
    /\ response = "handle_direct"

C28_MatchedNeverReturnedAfterAttempt ==
    llm_attempts > 0 /\ MatchedCategories # {} =>
        /\ \A c \in MatchedCategories : ~ ToolOn(c)
        /\ result \notin MatchedCategories

\* after an attempt for a query with a document and a web keyword, both
\* tools disabled, the call has returned the database category
C28_Witness ==
    /\ Returned
    /\ llm_attempts = 1
    /\ MatchedCategories = {"doc", "web"}
    /\ result = "db"

(***************************************************************************)
(* C30.  After a reload_config of the LangChainSupervisorAgent that        *)
(* succeeded, and until the file at the path the agent was constructed     *)
(* with is written again, the agent's configuration is what that file      *)
(* holds, and its tool list is direct_llm followed by exactly the tools    *)
(* that file enables.                                                      *)
(***************************************************************************)
\* the tools a configuration enables, in the order of the tool list
EnabledToolsOf(c) ==
    LET on(t) == t \in DOMAIN c.tools /\ c.tools[t].enabled
        pick(t) == IF on(t) THEN <<t>> ELSE <<>>
    IN  pick("document_retriever") \o pick("database_query") \o pick("web_search")

C30_AsStated ==
    last_reload = "ok" /\ ~ edited =>
        /\ disk[config_path].status = "ok"
        /\ config = disk[config_path].content
        /\ tools = <<"direct_llm">> \o EnabledToolsOf(disk[config_path].content)

\* the tool list is at all times direct_llm followed by the tools that the
\* configuration the agent holds enables
C30_ToolsFollowLoadedConfig ==
    tools = <<"direct_llm">> \o EnabledToolsOf(config)

\* an agent constructed with the default path config.json holds, after a
\* reload that succeeded, what that file holds
C30_DefaultPathReloads ==
    config_path = "config.json" => C30_AsStated

=============================================================================
